---- MODULE Spec2Model ----
(***************************************************************************)
(* Model of the two analysis scripts of gen-scripts2:                      *)
(*   lhePlot.py          event loop over an LHE file, 16 named histograms  *)
(*   vplusjetPDFsyst.py  coffea Processor run chunk by chunk by workers    *)
(* Both end by plotting every histogram to <outdir>/<observable>.png and   *)
(* pickling the collection to <outdir>/Pickles.pkl, and both can re-plot   *)
(* from such a pickle file.                                                *)
(*                                                                         *)
(* Numbers.  Momenta are integers (GeV).  A cut on pt or on a mass is      *)
(* taken on the squares (pt, mass >= 0 for every vector of the model), so  *)
(* "pt < 250" is pt2 < 250*250.  Angles (eta, phi) are in units of 1/1000, *)
(* the isolation, impact-parameter and MVA branches in units of 1/100.     *)
(* A histogram keeps, per collection key, the number of entries and the    *)
(* sum of weights over all its bins (the flow bins included).              *)
(***************************************************************************)
EXTENDS Integers, Sequences, FiniteSets, TLC

VARIABLES
    script,           \* which script runs: "lhePlot" or "vplusjetPDFsyst"
    pc,               \* position of the first run (on event input): "analyze" or
                      \* "run_job" (in the event loop), "plot" (the loop returned),
                      \* "done" (plot returned), "replotted" (a later run re-plotted
                      \* from the pickle), "raised" (an exception left the script's
                      \* own code), "read_failed" (an exception left the reader)
    outdir,           \* opt.outdir of the first run
    outdir2,          \* opt.outdir of the re-plotting run
    fs,               \* files on disk: path -> content
    written1,         \* paths written by the first run
    written2,         \* paths written by the re-plotting run
    lhe_file,         \* lhePlot: the events of the input file
    pos,              \* lhePlot: number of events the reader has yielded
    histograms,       \* lhePlot: the collection of analyze
    chunks,           \* vplusjetPDFsyst: the chunks of the input files
    chunk_state,      \* per chunk: "todo", "processed" (output returned) or "merged"
    outputs,          \* per chunk: the output process returned
    merged,           \* the accumulator run_uproot_job adds the outputs to
    self_accumulator, \* Processor._accumulator
    last_call         \* locals of the last process call at its end

vars == << script, pc, outdir, outdir2, fs, written1, written2, lhe_file, pos,
           histograms, chunks, chunk_state, outputs, merged, self_accumulator,
           last_call >>

lheVars == << lhe_file, pos, histograms >>
nanoVars == << chunks, chunk_state, outputs, merged, self_accumulator, last_call >>

\* Python's None, as the value of a four-vector variable not yet assigned
None == [none |-> TRUE]

\* ---------------------------------------------------------------- bounds
MaxEvents == 2
MaxChunks == 2

\* ------------------------------------------------------- sequence helpers
Range(s) == { s[i] : i \in 1..Len(s) }

SeqsUpTo(S, n) == UNION { [1..k -> S] : k \in 0..n }

RECURSIVE SumSeq(_)
SumSeq(s) == IF s = << >> THEN 0 ELSE Head(s) + SumSeq(Tail(s))

Abs(x) == IF x < 0 THEN -x ELSE x

\* ------------------------------------------------------------ four-vectors
P4(px, py, pz, e) == [px |-> px, py |-> py, pz |-> pz, e |-> e]

AddP4(a, b) == P4(a.px + b.px, a.py + b.py, a.pz + b.pz, a.e + b.e)

pt2(v) == v.px * v.px + v.py * v.py

mass2(v) == v.e * v.e - v.px * v.px - v.py * v.py - v.pz * v.pz

\* =========================================================== lhePlot.py
\* A particle of an LHE event: pdgid, status and its momentum components.
Part(pdgid, status, px, py, pz, e) ==
    [pdgid |-> pdgid, status |-> status, px |-> px, py |-> py, pz |-> pz, e |-> e]

\* Particle.p4() of the reader
p4(x) == P4(x.px, x.py, x.pz, x.e)

\* the keys of the dict bins, in the order of the source
bins == << "wei", "nlep", "lep_eta", "lep_pt", "dilep_m", "dilep_pt",
           "z_mass", "z_pt", "njet", "njet15", "jet_eta", "jet_pt",
           "jets_ht", "dijet_m", "dijet_pt", "dijet_dr" >>

\* a Hist with Weight storage and nothing filled
EmptyHist == [entries |-> 0, sumw |-> 0]

\* mutant: the last entry of bins is lost
setup_histograms_short == [observable \in Range(SubSeq(bins, 1, Len(bins) - 1)) |-> EmptyHist]

setup_histograms == [observable \in Range(bins) |-> EmptyHist]

\* Hist.fill(value, weight=w), n times: histograms[observable].fill(...)
fill(h, observable, n, w) ==
    [h EXCEPT ![observable] = [entries |-> @.entries + n, sumw |-> @.sumw + n * w]]

isLepton(x) == Abs(x.pdgid) \in {11, 13, 15}
isZ(x) == x.pdgid = 23
isJet(x) == Abs(x.pdgid) \in {1, 2, 3, 4, 5, 21} /\ x.status = 1
isJet15(x) == isJet(x) /\ pt2(p4(x)) > 15 * 15

\* the loop "if v: v += l.p4() else: v = l.p4()" over the particles of s
RECURSIVE sum_p4(_, _)
sum_p4(v, s) ==
    IF s = << >> THEN v
    ELSE sum_p4(IF v # None THEN AddP4(v, p4(Head(s))) ELSE p4(Head(s)), Tail(s))

\* v_p4 after the lepton loop: leptons with pt < 1 are skipped
lepton_sum(leptons) == sum_p4(None, SelectSeq(leptons, LAMBDA l : ~(pt2(p4(l)) < 1 * 1)))

\* j_p4 after the jet loop
jet_sum(jets) == sum_p4(None, jets)

\* mutant: "and" for "or" in the pt cut
vpt_cut_and(v) == pt2(v) < 250 * 250 /\ pt2(v) > 400 * 400

\* "if vpt<250 or vpt>400: continue"
vpt_cut(v) == pt2(v) < 250 * 250 \/ pt2(v) > 400 * 400
\* "if vmass<50 or vmass>130: continue"
vmass_cut(v) == mass2(v) < 50 * 50 \/ mass2(v) > 130 * 130

\* the fills of an event that passed the cuts, up to the end of the jet loop
fill_selected(h, wei, nlep, nZ, njet) ==
    LET h1 == fill(h, "wei", 1, 1)
        h2 == fill(h1, "dilep_m", 1, wei)
        h3 == fill(h2, "dilep_pt", 1, wei)
        h4 == fill(fill(h3, "lep_eta", nlep, wei), "lep_pt", nlep, wei)
        h5 == fill(fill(h4, "z_mass", nZ, wei), "z_pt", nZ, wei)
    IN  fill(fill(h5, "jet_eta", njet, wei), "jet_pt", njet, wei)

\* "if njet15>=2:" and its three fills
fill_dijet(h, wei, njet15) ==
    IF njet15 >= 2
    THEN fill(fill(fill(h, "dijet_dr", 1, wei), "dijet_m", 1, wei), "dijet_pt", 1, wei)
    ELSE h

\* One pass of the body of "for event in reader": the collection after it,
\* and whether the body raised (reading .pt of a None four-vector).
analyzeEvent(h, event) ==
    LET leptons == SelectSeq(event.particles, isLepton)
        Zs      == SelectSeq(event.particles, isZ)
        jets    == SelectSeq(event.particles, isJet)
        jets15  == SelectSeq(event.particles, isJet15)
        nlep    == Len(leptons)
        njet    == Len(jets)
        njet15  == Len(jets15)
        h0      == fill(fill(fill(h, "nlep", 1, 1), "njet", 1, 1), "njet15", 1, 1)
        v_p4    == lepton_sum(leptons)
        wei     == event.weights[1]
        hsel    == fill_selected(h0, wei, nlep, Len(Zs), njet)
        j_p4    == jet_sum(jets)
    IN  IF nlep # 2 THEN [h |-> h0, raised |-> FALSE]
        ELSE IF v_p4 = None THEN [h |-> h0, raised |-> TRUE]
        ELSE IF vpt_cut(v_p4) THEN [h |-> h0, raised |-> FALSE]
        ELSE IF vmass_cut(v_p4) THEN [h |-> h0, raised |-> FALSE]
        ELSE IF j_p4 = None THEN [h |-> hsel, raised |-> TRUE]
        ELSE [h |-> fill_dijet(fill(hsel, "jets_ht", 1, wei), wei, njet15),
              raised |-> FALSE]

\* ------------------------------------------------- files, plot and pickle
OutDirs == {"plots_default", "plots_new"}

ImagePath(dir, observable) == << dir, observable, "png" >>
PicklePath(dir) == << dir, "Pickles", "pkl" >>

\* pkl.dump of a dict: the (key, value) pairs of the stream
dump(d) == { << k, d[k] >> : k \in DOMAIN d }
\* pkl.load: the dict rebuilt from the pairs
load(stream) ==
    [k \in { kv[1] : kv \in stream } |-> (CHOOSE kv \in stream : kv[1] = k)[2]]

\* mutant: the test of fromPickles guards the images too
lhe_plot_guarded(hs, dir, fromPickles) ==
    IF fromPickles THEN << >>
    ELSE [p \in { ImagePath(dir, observable) : observable \in DOMAIN hs }
                \cup { PicklePath(dir) } |->
            IF p = PicklePath(dir) THEN [pickled |-> dump(hs)]
            ELSE [image |-> hs[p[2]]]]

\* what a call of plot writes: path -> content
lhe_plot(hs, dir, fromPickles) ==
    LET images == { ImagePath(dir, observable) : observable \in DOMAIN hs }
        pickle == IF fromPickles THEN {} ELSE { PicklePath(dir) }
    IN  [p \in images \cup pickle |->
            IF p = PicklePath(dir) THEN [pickled |-> dump(hs)]
            ELSE [image |-> hs[p[2]]]]

\* the disk after the files of w are written
WriteFiles(disk, w) ==
    [p \in DOMAIN disk \cup DOMAIN w |-> IF p \in DOMAIN w THEN w[p] ELSE disk[p]]

\* lhePlot.plotFromPickles(inputfile)
lhe_plotFromPickles(disk, inputfile, dir) ==
    lhe_plot(load(disk[inputfile].pickled), dir, TRUE)

\* ------------------------------------------------------- LHE input events
Lep1 == Part(13, 1, 180, 0, 0, 180)
Lep2 == Part(-13, 1, 120, 0, 50, 130)
ZBoson == Part(23, 2, 300, 0, 50, 310)
QIn1 == Part(1, -1, 0, 0, 500, 500)
QIn2 == Part(-1, -1, 0, 0, -500, 500)
Jet1 == Part(21, 1, -200, 0, 0, 200)
Jet2 == Part(2, 1, -100, 0, 0, 100)
JetSoft == Part(21, 1, -10, 0, 0, 10)

LheEvents == {
    \* passes the cuts, two jets above 15
    [particles |-> << QIn1, QIn2, ZBoson, Lep1, Lep2, Jet1, Jet2 >>, weights |-> << 2 >>],
    \* passes the cuts, one jet, below 15
    [particles |-> << QIn1, QIn2, ZBoson, Lep1, Lep2, JetSoft >>, weights |-> << -1 >>],
    \* passes the cuts, no status-1 quark or gluon
    [particles |-> << QIn1, QIn2, ZBoson, Lep1, Lep2 >>, weights |-> << 1 >>],
    \* dilepton pt 0
    [particles |-> << Part(11, 1, 30, 0, 0, 30), Part(-11, 1, -30, 0, 0, 30), Jet1 >>,
     weights |-> << 1 >>],
    \* dilepton pt 300, mass 0
    [particles |-> << Part(13, 1, 150, 0, 0, 150), Part(-13, 1, 150, 0, 0, 150), Jet1 >>,
     weights |-> << 1 >>],
    \* one charged lepton
    [particles |-> << Part(11, 1, 40, 0, 0, 40), Part(-12, 1, -40, 0, 0, 40), Jet1, Jet2 >>,
     weights |-> << 1 >>],
    \* two leptons, both with pt < 1
    [particles |-> << Part(13, 1, 0, 0, 5, 5), Part(-13, 1, 0, 0, -5, 5), Jet1 >>,
     weights |-> << 1 >>],
    \* two leptons, one with pt < 1
    [particles |-> << Part(13, 1, 0, 0, 5, 5), Part(-13, 1, 300, 0, 0, 300), Jet1 >>,
     weights |-> << 1 >>] }

\* ==================================================== vplusjetPDFsyst.py
\* ---- coffea accumulators
\* A coffea Hist: its sparse keys (dataset) or (dataset, PDFwei), each with
\* the number of entries and the sum of weights.  A defaultdict_accumulator:
\* its keys and values.
NewHist == [type |-> "Hist", sumw |-> << >>]
NewDefaultDict == [type |-> "defaultdict_accumulator", d |-> << >>]

\* the observables of the dict axis that get a Hist (all but the two
\* category axes and dilep_pt, which is added with the PDFwei axis)
axis == << "dataset", "PDFwei", "LHE_Vpt", "wei", "nlep", "dilep_m", "dilep_pt",
           "njet15", "dijet_dr", "dijet_m", "dijet_pt" >>

\* Processor.__init__: self._accumulator
Processor_init ==
    LET plain == Range(axis) \ {"dataset", "PDFwei", "dilep_pt"}
    IN  [name \in plain \cup {"dilep_pt", "cutflow", "sumw"} |->
            IF name \in {"cutflow", "sumw"} THEN NewDefaultDict ELSE NewHist]

\* dict_accumulator.identity(): every value replaced by its identity
identity(acc) ==
    [name \in DOMAIN acc |->
        IF acc[name].type = "Hist" THEN NewHist ELSE NewDefaultDict]

\* d[key] of a defaultdict with default value dflt
Get(d, key, dflt) == IF key \in DOMAIN d THEN d[key] ELSE dflt

Put(d, key, val) == [k \in DOMAIN d \cup {key} |-> IF k = key THEN val ELSE d[k]]

\* Hist.fill(<key>, <values>, weight=<weights>): n values with weights of sum w
hist_fill(acc, name, key, n, w) ==
    LET old == Get(acc[name].sumw, key, EmptyHist)
    IN  [acc EXCEPT ![name].sumw =
            Put(@, key, [entries |-> old.entries + n, sumw |-> old.sumw + w])]

\* output['cutflow'][dataset][counter] += n
cutflow_add(acc, dataset, counter, n) ==
    LET row == Get(acc["cutflow"].d, dataset, << >>)
    IN  [acc EXCEPT !["cutflow"].d = Put(@, dataset, Put(row, counter, Get(row, counter, 0) + n))]

\* output['sumw'][dataset] += w
sumw_add(acc, dataset, w) ==
    [acc EXCEPT !["sumw"].d = Put(@, dataset, Get(@, dataset, 0) + w)]

\* a + b of two accumulators of the same kind
AddHist(a, b) ==
    [k \in DOMAIN a \cup DOMAIN b |->
        [entries |-> Get(a, k, EmptyHist).entries + Get(b, k, EmptyHist).entries,
         sumw    |-> Get(a, k, EmptyHist).sumw + Get(b, k, EmptyHist).sumw]]

AddInts(a, b) == [k \in DOMAIN a \cup DOMAIN b |-> Get(a, k, 0) + Get(b, k, 0)]

AddCutflow(a, b) ==
    [k \in DOMAIN a \cup DOMAIN b |-> AddInts(Get(a, k, << >>), Get(b, k, << >>))]

\* the sum run_uproot_job forms of its accumulator and a returned output
accumulate(a, b) ==
    [name \in DOMAIN a |->
        IF a[name].type = "Hist"
        THEN [a[name] EXCEPT !.sumw = AddHist(@, b[name].sumw)]
        ELSE IF name = "cutflow"
        THEN [a[name] EXCEPT !.d = AddCutflow(@, b[name].d)]
        ELSE [a[name] EXCEPT !.d = AddInts(@, b[name].d)]]

\* ---- object selection
goodmuon(m) ==
    /\ m.pt > 15
    /\ Abs(m.eta) < 2400
    /\ m.pfRelIso04_all < 25
    /\ m.looseId
    /\ Abs(m.dxy) < 5
    /\ Abs(m.dz) < 10

goodelectron(e) ==
    /\ e.pt > 15
    /\ Abs(e.eta) < 2500
    /\ Abs(e.dxy) < 5
    /\ Abs(e.dz) < 10
    /\ e.lostHits < 2
    /\ e.miniPFRelIso_all < 40
    /\ \/ e.mvaFall17V2noIso > 0 /\ Abs(e.eta) < 1479
       \/ e.mvaFall17V2noIso > 70 /\ Abs(e.eta) > 1479 /\ Abs(e.eta) < 2500

\* ak.combinations(muons, 2, fields=['i0', 'i1'])
RECURSIVE combinations(_)
combinations(s) ==
    IF Len(s) < 2 THEN << >>
    ELSE [i \in 1..(Len(s) - 1) |-> [i0 |-> s[1], i1 |-> s[i + 1]]]
         \o combinations(Tail(s))

opposites(pair) == pair.i0.charge # pair.i1.charge

\* mutant: the lower mass limit is strict
limits_strict(pair) ==
    /\ mass2(AddP4(pair.i0.p4, pair.i1.p4)) > 60 * 60
    /\ mass2(AddP4(pair.i0.p4, pair.i1.p4)) < 120 * 120

\* mass >= 60 and mass < 120 of i0 + i1
limits(pair) ==
    /\ mass2(AddP4(pair.i0.p4, pair.i1.p4)) >= 60 * 60
    /\ mass2(AddP4(pair.i0.p4, pair.i1.p4)) < 120 * 120

good_dimuons(ev) ==
    SelectSeq(combinations(SelectSeq(ev.Muon, goodmuon)),
              LAMBDA pair : opposites(pair) /\ limits(pair))

\* delta R squared of two objects (the model's objects are less than pi apart in phi)
deltaR2(a, b) == (a.eta - b.eta) * (a.eta - b.eta) + (a.phi - b.phi) * (a.phi - b.phi)

\* isClean for one jet: the nearest object is further than drmin (0.4), or
\* there is none (fill_none(..., True))
isClean(jet, objs) ==
    IF objs = << >> THEN TRUE
    ELSE LET drs == { deltaR2(jet, objs[i]) : i \in 1..Len(objs) }
             nearest == CHOOSE d \in drs : \A o \in drs : d <= o
         IN  nearest > 400 * 400

tightjet(j) == j.pt > 30 /\ Abs(j.eta) < 2500 /\ j.isTight

good_jets(ev) ==
    LET electrons == SelectSeq(ev.Electron, goodelectron)
        muons == SelectSeq(ev.Muon, goodmuon)
    IN  SelectSeq(SelectSeq(ev.Jet, tightjet),
                  LAMBDA j : isClean(j, electrons) /\ isClean(j, muons))

\* mutant: at least one good pair
two_lep_some(ev) == Len(good_dimuons(ev)) >= 1

two_lep(ev) == Len(good_dimuons(ev)) = 1
two_jets(ev) == Len(good_jets(ev)) >= 2
full_selection(ev) == two_lep(ev) /\ two_jets(ev)

\* ak.flatten of a jagged array
RECURSIVE flatten(_)
flatten(jagged) == IF jagged = << >> THEN << >> ELSE Head(jagged) \o flatten(Tail(jagged))

\* the PDFwei labels of the loop "for p in range(0,32)"
NPdf == 32

\* mutant: the loop starts at 1
RECURSIVE fill_pdf_from1(_, _, _, _, _)
fill_pdf_from1(acc, dataset, selected, nvalues, p) ==
    IF p <= 1 THEN acc
    ELSE LET w == [i \in 1..Len(selected) |->
                      selected[i].genWeight * (2 * selected[i].LHEPdfWeight[p])]
         IN  hist_fill(fill_pdf_from1(acc, dataset, selected, nvalues, p - 1),
                       "dilep_pt", << dataset, ToString(p - 1) >>, nvalues, SumSeq(w))

\* the fills of dilep_pt under the labels str(0) .. str(p - 1)
RECURSIVE fill_pdf(_, _, _, _, _)
fill_pdf(acc, dataset, selected, nvalues, p) ==
    IF p = 0 THEN acc
    ELSE LET w == [i \in 1..Len(selected) |->
                      selected[i].genWeight * (2 * selected[i].LHEPdfWeight[p])]
         IN  hist_fill(fill_pdf(acc, dataset, selected, nvalues, p - 1),
                       "dilep_pt", << dataset, ToString(p - 1) >>, nvalues, SumSeq(w))

\* The body of Processor.process(events) from the accumulator `output` it
\* starts with: the output it returns, whether it raised (an index past the
\* jets of an event, or values and weights of different lengths in a fill),
\* and the lengths of its arrays.
process_body(output, chunk) ==
    LET events   == chunk.events
        dataset  == chunk.dataset
        n        == Len(events)
        genW     == [i \in 1..n |-> events[i].genWeight]
        o1 == cutflow_add(output, dataset, "all_events", n)
        o2 == cutflow_add(o1, dataset, "number_of_chunks", 1)
        o3 == sumw_add(o2, dataset, SumSeq(genW))
        o4 == hist_fill(o3, "LHE_Vpt", << dataset >>, n, SumSeq(genW))
        o5 == hist_fill(o4, "wei", << dataset >>, n, n)
        o6 == hist_fill(o5, "nlep", << dataset >>, n, n)
        o7 == hist_fill(o6, "njet15", << dataset >>, n, n)
        selected == SelectSeq(events, full_selection)
        nsel     == Len(selected)
        o8 == cutflow_add(o7, dataset, "selected_events", nsel)
        j_2l2j   == [i \in 1..nsel |-> good_jets(selected[i])]
        dijet_ok == \A i \in 1..nsel : Len(j_2l2j[i]) >= 2
        weight   == [i \in 1..nsel |-> selected[i].genWeight]
        vpt      == flatten([i \in 1..nsel |->
                        [k \in 1..Len(good_dimuons(selected[i])) |->
                            pt2(AddP4(good_dimuons(selected[i])[k].i0.p4,
                                      good_dimuons(selected[i])[k].i1.p4))]])
        vmass    == flatten([i \in 1..nsel |->
                        [k \in 1..Len(good_dimuons(selected[i])) |->
                            mass2(AddP4(good_dimuons(selected[i])[k].i0.p4,
                                        good_dimuons(selected[i])[k].i1.p4))]])
        aligned  == Len(vmass) = Len(weight) /\ Len(vpt) = Len(weight)
        o9  == hist_fill(o8, "dilep_m", << dataset >>, Len(vmass), SumSeq(weight))
        o10 == hist_fill(o9, "dilep_pt", << dataset, "Default" >>, Len(vpt), SumSeq(weight))
        o11 == hist_fill(o10, "dijet_m", << dataset >>, nsel, SumSeq(weight))
        o12 == hist_fill(o11, "dijet_pt", << dataset >>, nsel, SumSeq(weight))
        o13 == hist_fill(o12, "dijet_dr", << dataset >>, nsel, SumSeq(weight))
        o14 == fill_pdf(o13, dataset, selected, Len(vpt), NPdf)
    IN  [output |-> IF ~dijet_ok THEN o8 ELSE IF ~aligned THEN o8 ELSE o14,
         raised |-> ~dijet_ok \/ ~aligned,
         n_selected |-> nsel,
         n_vpt |-> Len(vpt), n_vmass |-> Len(vmass), n_weight |-> Len(weight),
         jets_01 |-> dijet_ok]

\* mutant: output is self.accumulator itself, not its identity
process_shared(self_acc, chunk) ==
    [call |-> process_body(self_acc, chunk), self |-> process_body(self_acc, chunk).output]

\* Processor.process on a processor whose _accumulator is self_acc: the
\* result of the body started from the identity, and self._accumulator after
\* the call (process never assigns it)
process(self_acc, chunk) ==
    [call |-> process_body(identity(self_acc), chunk), self |-> self_acc]

\* what a call of vplusjetPDFsyst.plot writes: an image per Hist of the
\* collection (the other accumulators are skipped), and the pickle
vplusjet_plot(hs, dir, fromPickles) ==
    LET images == { ImagePath(dir, observable) :
                      observable \in { o \in DOMAIN hs : hs[o].type = "Hist" } }
        pickle == IF fromPickles THEN {} ELSE { PicklePath(dir) }
    IN  [p \in images \cup pickle |->
            IF p = PicklePath(dir) THEN [pickled |-> dump(hs)]
            ELSE [image |-> hs[p[2]]]]

\* vplusjetPDFsyst.plotFromPickles(inputfile, outdir)
vplusjet_plotFromPickles(disk, inputfile, dir) ==
    vplusjet_plot(load(disk[inputfile].pickled), dir, TRUE)

\* ---------------------------------------------------- NanoAOD input events
Muon(pt, eta, phi, charge, iso, p) ==
    [pt |-> pt, eta |-> eta, phi |-> phi, charge |-> charge, pfRelIso04_all |-> iso,
     looseId |-> TRUE, dxy |-> 0, dz |-> 0, p4 |-> p]

Electron(pt, eta, phi, mva) ==
    [pt |-> pt, eta |-> eta, phi |-> phi, dxy |-> 0, dz |-> 0, lostHits |-> 0,
     miniPFRelIso_all |-> 10, mvaFall17V2noIso |-> mva]

Jet(pt, eta, phi, isTight, p) ==
    [pt |-> pt, eta |-> eta, phi |-> phi, isTight |-> isTight, p4 |-> p]

MuA == Muon(180, 0, 3000, 1, 5, P4(180, 0, 0, 180))
MuB == Muon(120, 400, 2900, -1, 5, P4(120, 0, 50, 130))
MuC == Muon(120, -400, 2900, -1, 5, P4(120, 0, -50, 130))
MuSame == Muon(120, 400, 2900, 1, 5, P4(120, 0, 50, 130))
MuBadIso == Muon(50, 0, 0, -1, 80, P4(50, 0, 0, 50))
JetA == Jet(200, 500, 0, TRUE, P4(-200, 0, 0, 200))
JetB == Jet(100, -500, 200, TRUE, P4(-100, 0, 0, 100))
JetC == Jet(60, 1000, -1000, TRUE, P4(-60, 0, 0, 60))
JetNearMu == Jet(50, 100, 3100, TRUE, P4(50, 0, 0, 50))
JetLoose == Jet(80, 0, 1000, FALSE, P4(0, 80, 0, 80))
EleNearC == Electron(40, 1000, -900, 50)
EleBadNearA == Electron(40, 2000, 0, 50)

PdfWeights == [p \in 1..(NPdf + 1) |-> 1 + (p % 2)]

NanoEvent(gw, mu, el, jet) ==
    [genWeight |-> gw, LHE_Vpt |-> 300, Muon |-> mu, Electron |-> el, Jet |-> jet,
     LHEPdfWeight |-> PdfWeights]

\* one good pair, two clean jets
EvSel == NanoEvent(2, << MuA, MuB >>, << >>, << JetA, JetB >>)
\* one good pair, three jets of which one is next to a good electron
EvSel3 == NanoEvent(-1, << MuA, MuB, MuBadIso >>, << EleNearC, EleBadNearA >>,
                    << JetA, JetC, JetB >>)
\* one good pair, one of the two jets is next to a muon
EvOneJet == NanoEvent(1, << MuA, MuB >>, << >>, << JetA, JetNearMu >>)
\* two good pairs
EvTwoPairs == NanoEvent(1, << MuA, MuB, MuC >>, << >>, << JetA, JetB >>)
\* a same-sign pair
EvSameSign == NanoEvent(1, << MuA, MuSame >>, << >>, << JetA, JetB >>)
\* no good muon
EvNoMuon == NanoEvent(3, << MuBadIso >>, << >>, << JetA, JetB, JetLoose >>)

\* the keys of file_list
Datasets == {"2017_DY1J", "2017_DY2J"}

Chunk(dataset, events) == [dataset |-> dataset, events |-> events]

NanoChunks == { Chunk("2017_DY1J", << EvSel, EvNoMuon >>),
                Chunk("2017_DY2J", << EvSel3, EvTwoPairs, EvSel >>),
                Chunk("2017_DY1J", << EvOneJet, EvSameSign >>) }

\* ================================================================ the runs
NoCall == [raised |-> FALSE, n_selected |-> 0, n_vpt |-> 0, n_vmass |-> 0,
           n_weight |-> 0, jets_01 |-> TRUE, output |-> << >>]

\* lhePlot.py <file>.lhe: analyze has set up its histograms
InitLhe ==
    /\ script = "lhePlot"
    /\ pc = "analyze"
    /\ lhe_file \in SeqsUpTo(LheEvents, MaxEvents)
    /\ pos = 0
    /\ histograms = setup_histograms
    /\ chunks = << >>
    /\ chunk_state = << >>
    /\ outputs = << >>
    /\ merged = << >>
    /\ self_accumulator = << >>
    /\ last_call = NoCall

\* vplusjetPDFsyst.py without --pkl: run_uproot_job has the chunks of the
\* file list and the identity of the processor's accumulator
InitNano ==
    /\ script = "vplusjetPDFsyst"
    /\ pc = "run_job"
    /\ chunks \in SeqsUpTo(NanoChunks, MaxChunks)
    /\ chunk_state = [i \in 1..Len(chunks) |-> "todo"]
    /\ outputs = [i \in 1..Len(chunks) |-> << >>]
    /\ self_accumulator = Processor_init
    /\ merged = identity(Processor_init)
    /\ last_call = NoCall
    /\ lhe_file = << >>
    /\ pos = 0
    /\ histograms = << >>

Init ==
    /\ outdir = "plots_default"
    /\ outdir2 = outdir
    /\ fs = << >>
    /\ written1 = {}
    /\ written2 = {}
    /\ (InitLhe \/ InitNano)

fileVars == << outdir, outdir2, fs, written1, written2 >>

\* ---- lhePlot.py
\* mutant: the loop body's exception is caught and the loop goes on
LheEvent_caught ==
    /\ script = "lhePlot" /\ pc = "analyze"
    /\ pos < Len(lhe_file)
    /\ histograms' = analyzeEvent(histograms, lhe_file[pos + 1]).h
    /\ pos' = pos + 1
    /\ UNCHANGED << script, pc, lhe_file, fileVars, nanoVars >>

\* the reader yields the next event and the loop body runs on it
LheEvent ==
    /\ script = "lhePlot" /\ pc = "analyze"
    /\ pos < Len(lhe_file)
    /\ LET r == analyzeEvent(histograms, lhe_file[pos + 1])
       IN  /\ histograms' = r.h
           /\ pc' = IF r.raised THEN "raised" ELSE "analyze"
    /\ pos' = pos + 1
    /\ UNCHANGED << script, lhe_file, fileVars, nanoVars >>

\* the reader raises on the rest of the file (malformed input)
LheReadFails ==
    /\ script = "lhePlot" /\ pc = "analyze"
    /\ pc' = "read_failed"
    /\ UNCHANGED << script, lheVars, fileVars, nanoVars >>

\* the reader is exhausted: analyze returns the histograms
LheReturn ==
    /\ script = "lhePlot" /\ pc = "analyze"
    /\ pos = Len(lhe_file)
    /\ pc' = "plot"
    /\ UNCHANGED << script, lheVars, fileVars, nanoVars >>

\* plot(histograms)
LhePlot ==
    /\ script = "lhePlot" /\ pc = "plot"
    /\ LET w == lhe_plot(histograms, outdir, FALSE)
       IN  /\ fs' = WriteFiles(fs, w)
           /\ written1' = DOMAIN w
    /\ pc' = "done"
    /\ UNCHANGED << script, outdir, outdir2, written2, lheVars, nanoVars >>

\* a later run: lhePlot.py -o <dir> <outdir>/Pickles.pkl
LheReplot ==
    /\ script = "lhePlot" /\ pc = "done"
    /\ \E dir \in OutDirs :
        LET w == lhe_plotFromPickles(fs, PicklePath(outdir), dir)
        IN  /\ outdir2' = dir
            /\ fs' = WriteFiles(fs, w)
            /\ written2' = DOMAIN w
    /\ pc' = "replotted"
    /\ UNCHANGED << script, outdir, written1, lheVars, nanoVars >>

\* ---- vplusjetPDFsyst.py
\* a worker runs process on chunk i
ProcessChunk(i) ==
    /\ script = "vplusjetPDFsyst" /\ pc = "run_job"
    /\ chunk_state[i] = "todo"
    /\ LET r == process(self_accumulator, chunks[i])
       IN  /\ last_call' = r.call
           /\ self_accumulator' = r.self
           /\ IF r.call.raised
              THEN /\ pc' = "raised"
                   /\ UNCHANGED << chunk_state, outputs >>
              ELSE /\ pc' = pc
                   /\ chunk_state' = [chunk_state EXCEPT ![i] = "processed"]
                   /\ outputs' = [outputs EXCEPT ![i] = r.call.output]
    /\ UNCHANGED << script, chunks, merged, fileVars, lheVars >>

\* reading chunk i fails in its worker (malformed file, missing field)
ChunkFails(i) ==
    /\ script = "vplusjetPDFsyst" /\ pc = "run_job"
    /\ chunk_state[i] = "todo"
    /\ pc' = "read_failed"
    /\ UNCHANGED << script, nanoVars, fileVars, lheVars >>

\* run_uproot_job adds the output of chunk i to its accumulator
MergeOutput(i) ==
    /\ script = "vplusjetPDFsyst" /\ pc = "run_job"
    /\ chunk_state[i] = "processed"
    /\ merged' = accumulate(merged, outputs[i])
    /\ chunk_state' = [chunk_state EXCEPT ![i] = "merged"]
    /\ UNCHANGED << script, pc, chunks, outputs, self_accumulator, last_call,
                    fileVars, lheVars >>

\* every output is merged: run_uproot_job returns
JobReturns ==
    /\ script = "vplusjetPDFsyst" /\ pc = "run_job"
    /\ \A i \in 1..Len(chunks) : chunk_state[i] = "merged"
    /\ pc' = "plot"
    /\ UNCHANGED << script, nanoVars, fileVars, lheVars >>

\* plot(output, opt.outdir)
NanoPlot ==
    /\ script = "vplusjetPDFsyst" /\ pc = "plot"
    /\ LET w == vplusjet_plot(merged, outdir, FALSE)
       IN  /\ fs' = WriteFiles(fs, w)
           /\ written1' = DOMAIN w
    /\ pc' = "done"
    /\ UNCHANGED << script, outdir, outdir2, written2, lheVars, nanoVars >>

\* a later run: vplusjetPDFsyst.py -o <dir> --pkl <outdir>/Pickles.pkl
NanoReplot ==
    /\ script = "vplusjetPDFsyst" /\ pc = "done"
    /\ \E dir \in OutDirs :
        LET w == vplusjet_plotFromPickles(fs, PicklePath(outdir), dir)
        IN  /\ outdir2' = dir
            /\ fs' = WriteFiles(fs, w)
            /\ written2' = DOMAIN w
    /\ pc' = "replotted"
    /\ UNCHANGED << script, outdir, written1, lheVars, nanoVars >>

Next ==
    \/ LheEvent
    \/ LheReadFails
    \/ LheReturn
    \/ LhePlot
    \/ LheReplot
    \/ \E i \in 1..Len(chunks) : ProcessChunk(i)
    \/ \E i \in 1..Len(chunks) : ChunkFails(i)
    \/ \E i \in 1..Len(chunks) : MergeOutput(i)
    \/ JobReturns
    \/ NanoPlot
    \/ NanoReplot

Spec == Init /\ [][Next]_vars

\* ================================================================ claims
Failed == {"raised", "read_failed"}

\* the body of the event loop raises on this event
Raises(event) == analyzeEvent(setup_histograms, event).raised

\* C4: a failure while events are read or processed ends the run where it
\* happened and the run writes no file: in lhePlot the event the loop body
\* raises on is the last one read, in both scripts a failed run is at its end
\* (no step is possible) with nothing written, and whatever was written was
\* written after the event loop had returned.
C4_FailureEndsRunWithoutOutput ==
    /\ script = "lhePlot" =>
          \A k \in 1..pos : Raises(lhe_file[k]) =>
              pc = "raised" /\ pos = k /\ written1 = {} /\ DOMAIN fs = {}
    /\ pc \in Failed => written1 = {} /\ written2 = {} /\ DOMAIN fs = {} /\ ~ENABLED Next
    /\ written1 # {} =>
          /\ pc \in {"done", "replotted"}
          /\ script = "lhePlot" => pos = Len(lhe_file)
          /\ script = "vplusjetPDFsyst" =>
                \A i \in 1..Len(chunks) : chunk_state[i] = "merged"

\* a run that failed after it had filled histograms, with events left unread
C4_Witness ==
    /\ script = "lhePlot" /\ pc = "raised"
    /\ pos < Len(lhe_file)
    /\ histograms["wei"].entries >= 1

\* ---- helpers of the statements
RunOver == {"plot", "done", "replotted"}

CutflowCount(acc, d, counter) == Get(Get(acc["cutflow"].d, d, << >>), counter, 0)

Entries(acc, name, key) == Get(acc[name].sumw, key, EmptyHist).entries

SumW(acc, name, key) == Get(acc[name].sumw, key, EmptyHist).sumw

HistNames(acc) == { name \in DOMAIN acc : acc[name].type = "Hist" }

\* the event has exactly one pair of good muons of opposite charge and mass
\* in [60, 120), and at least two tight jets away from the good leptons
Selected(ev) ==
    LET pairs == { pr \in (1..Len(ev.Muon)) \X (1..Len(ev.Muon)) :
                     /\ pr[1] < pr[2]
                     /\ goodmuon(ev.Muon[pr[1]]) /\ goodmuon(ev.Muon[pr[2]])
                     /\ ev.Muon[pr[1]].charge # ev.Muon[pr[2]].charge
                     /\ mass2(AddP4(ev.Muon[pr[1]].p4, ev.Muon[pr[2]].p4)) >= 3600
                     /\ mass2(AddP4(ev.Muon[pr[1]].p4, ev.Muon[pr[2]].p4)) < 14400 }
        leptons == { ev.Muon[i] : i \in { k \in 1..Len(ev.Muon) : goodmuon(ev.Muon[k]) } }
                   \cup { ev.Electron[i] :
                            i \in { k \in 1..Len(ev.Electron) : goodelectron(ev.Electron[k]) } }
        clean == { j \in 1..Len(ev.Jet) :
                     /\ tightjet(ev.Jet[j])
                     /\ \A l \in leptons : deltaR2(ev.Jet[j], l) > 160000 }
    IN  Cardinality(pairs) = 1 /\ Cardinality(clean) >= 2

SelectedOf(chunk) == SelectSeq(chunk.events, Selected)

\* the sum of f[i] over the chunks i of `which`
SumChunks(which, f(_)) ==
    SumSeq([i \in 1..Len(chunks) |-> IF i \in which THEN f(i) ELSE 0])

MergedOf(d) ==
    { i \in 1..Len(chunks) : chunk_state[i] = "merged" /\ chunks[i].dataset = d }

\* the output of process on a processor that no call has touched
FreshOutput(chunk) == process_body(identity(Processor_init), chunk).output

\* C2: the first run writes one image per histogram of its collection and
\* the pickle of the collection; the run that re-plots from that pickle
\* writes an image for exactly the same observables, each rendered from a
\* histogram equal to the original one, and no pickle.
C2_ReplotRendersSameImages ==
    LET coll == IF script = "lhePlot" THEN histograms ELSE merged
        hists == IF script = "lhePlot" THEN DOMAIN histograms ELSE HistNames(merged)
    IN  /\ pc \in {"done", "replotted"} =>
              /\ written1 = { ImagePath(outdir, o) : o \in hists } \cup { PicklePath(outdir) }
              /\ PicklePath(outdir) \in DOMAIN fs
              /\ load(fs[PicklePath(outdir)].pickled) = coll
        /\ pc = "replotted" =>
              /\ written2 = { ImagePath(outdir2, o) : o \in hists }
              /\ { f[2] : f \in written2 } = { f[2] : f \in written1 \ { PicklePath(outdir) } }
              /\ \A o \in hists : fs[ImagePath(outdir2, o)] = [image |-> coll[o]]

\* a re-plot into another directory of a collection with filled histograms
C2_Witness ==
    /\ pc = "replotted" /\ outdir2 # outdir
    /\ \/ script = "lhePlot" /\ histograms["dijet_m"].entries >= 1
       \/ script = "vplusjetPDFsyst" /\ CutflowCount(merged, "2017_DY2J", "selected_events") >= 2

\* C3: process never writes the processor's own accumulator and the output
\* of a chunk is what process returns on an untouched processor, whatever
\* was processed before it; so, however the chunks were processed and their
\* outputs merged, the result of the job has per dataset the cutflow counts
\* and per histogram key the entries of the chunks added up.
C3_ChunksShareNoState ==
    script = "vplusjetPDFsyst" =>
        LET fresh == [i \in 1..Len(chunks) |-> FreshOutput(chunks[i])]
        IN  /\ self_accumulator = Processor_init
            /\ \A i \in 1..Len(chunks) : chunk_state[i] # "todo" => outputs[i] = fresh[i]
            /\ pc \in RunOver =>
                  /\ \A d \in Datasets :
                     \A c \in {"all_events", "number_of_chunks", "selected_events"} :
                        CutflowCount(merged, d, c) =
                            SumChunks({ i \in 1..Len(chunks) : chunks[i].dataset = d },
                                      LAMBDA i : CutflowCount(fresh[i], d, c))
                  /\ \A name \in HistNames(merged) :
                        /\ DOMAIN merged[name].sumw =
                              UNION { DOMAIN fresh[i][name].sumw : i \in 1..Len(chunks) }
                        /\ \A key \in DOMAIN merged[name].sumw :
                              Entries(merged, name, key) =
                                  SumChunks(1..Len(chunks),
                                            LAMBDA i : Entries(fresh[i], name, key))

\* the output of the second chunk is merged while the first, of the same
\* dataset, is processed and not merged
C3_Witness ==
    /\ script = "vplusjetPDFsyst" /\ Len(chunks) >= 2
    /\ chunks[1].dataset = chunks[2].dataset
    /\ chunk_state[1] = "processed" /\ chunk_state[2] = "merged"
    /\ CutflowCount(merged, chunks[1].dataset, "number_of_chunks") = 1

\* C5: the collection of analyze has the 16 names of setup_histograms, at
\* every point of the event loop and after it.
C5_FixedHistogramNames ==
    script = "lhePlot" =>
        /\ DOMAIN histograms =
              {"wei", "nlep", "lep_eta", "lep_pt", "dilep_m", "dilep_pt", "z_mass", "z_pt",
               "njet", "njet15", "jet_eta", "jet_pt", "jets_ht", "dijet_m", "dijet_pt",
               "dijet_dr"}
        /\ Cardinality(DOMAIN histograms) = 16

\* analyze returned after an event that filled the dijet histograms
C5_Witness ==
    /\ script = "lhePlot" /\ pc = "plot" /\ pos >= 1
    /\ histograms["dijet_dr"].entries >= 1

\* the PDFwei labels: "Default" and str(p) for the 32 values of p
PdfLabels == {"Default"} \cup { ToString(p) : p \in 0..31 }

\* C6: in the accumulator of the job, after any outputs merged, every dataset
\* seen has exactly the 33 PDFwei categories in dilep_pt, each with as many
\* entries as the dataset's selected_events; "Default" has the sum of
\* genWeight of the selected events, label p the sum of
\* genWeight * 2 * LHEPdfWeight[p].
C6_PdfVariations ==
    script = "vplusjetPDFsyst" =>
        LET sel == [i \in 1..Len(chunks) |-> SelectedOf(chunks[i])]
        IN  \A d \in DOMAIN merged["cutflow"].d :
                /\ Cardinality(PdfLabels) = 33
                /\ { key \in DOMAIN merged["dilep_pt"].sumw : key[1] = d }
                       = { << d, label >> : label \in PdfLabels }
                /\ \A label \in PdfLabels :
                      Entries(merged, "dilep_pt", << d, label >>)
                          = CutflowCount(merged, d, "selected_events")
                /\ SumW(merged, "dilep_pt", << d, "Default" >>) =
                      SumChunks(MergedOf(d), LAMBDA i :
                          SumSeq([k \in 1..Len(sel[i]) |-> sel[i][k].genWeight]))
                /\ \A p \in 0..31 :
                      SumW(merged, "dilep_pt", << d, ToString(p) >>) =
                          SumChunks(MergedOf(d), LAMBDA i :
                              SumSeq([k \in 1..Len(sel[i]) |->
                                         sel[i][k].genWeight * 2 * sel[i][k].LHEPdfWeight[p + 1]]))

\* two merged chunks of a dataset with at least three selected events
C6_Witness ==
    /\ script = "vplusjetPDFsyst"
    /\ \E d \in Datasets :
          /\ CutflowCount(merged, d, "number_of_chunks") >= 2
          /\ CutflowCount(merged, d, "selected_events") >= 3
          /\ Entries(merged, "dilep_pt", << d, "31" >>) >= 3

\* the event has two charged leptons whose sum has 250 <= pt <= 400 and
\* 50 <= mass <= 130
PassesCuts(event) ==
    LET leptons == SelectSeq(event.particles, LAMBDA x : Abs(x.pdgid) \in {11, 13, 15})
        v == lepton_sum(leptons)
    IN  /\ Len(leptons) = 2
        /\ v # None
        /\ pt2(v) >= 62500 /\ pt2(v) <= 160000
        /\ mass2(v) >= 2500 /\ mass2(v) <= 16900

\* C7: every pass of the loop body adds one entry of weight 1 to each of
\* nlep, njet and njet15; on an event that does not pass the three cuts it
\* leaves every other histogram as it was, and on one that passes it adds an
\* entry to wei.
C7_RejectedEventFillsCountersOnly ==
    [][ (script = "lhePlot" /\ pc = "analyze" /\ pos' = pos + 1) =>
          /\ \A o \in {"nlep", "njet", "njet15"} :
                histograms'[o] = [entries |-> histograms[o].entries + 1,
                                  sumw |-> histograms[o].sumw + 1]
          /\ ~PassesCuts(lhe_file[pos + 1]) =>
                \A o \in DOMAIN histograms \ {"nlep", "njet", "njet15"} :
                    histograms'[o] = histograms[o]
          /\ PassesCuts(lhe_file[pos + 1]) =>
                histograms'["wei"].entries = histograms["wei"].entries + 1 ]_vars

\* after a first two-lepton event rejected by a dilepton cut and a second
\* event that passed the cuts
C7_Witness ==
    /\ script = "lhePlot" /\ pos = 2
    /\ Len(SelectSeq(lhe_file[1].particles, isLepton)) = 2
    /\ ~PassesCuts(lhe_file[1]) /\ PassesCuts(lhe_file[2])
    /\ histograms["nlep"] = [entries |-> 2, sumw |-> 2]
    /\ histograms["wei"].entries = 1

\* C8: per dataset, in every returned output and in the accumulator of the
\* job after any outputs merged: number_of_chunks is the number of chunks,
\* all_events the number of their events, selected_events the number of
\* their events with exactly one good dimuon pair and at least two cleaned
\* jets, and selected_events <= all_events.
C8_CutflowCounts ==
    script = "vplusjetPDFsyst" =>
        /\ \A d \in Datasets :
              /\ CutflowCount(merged, d, "number_of_chunks") = Cardinality(MergedOf(d))
              /\ CutflowCount(merged, d, "all_events") =
                    SumChunks(MergedOf(d), LAMBDA i : Len(chunks[i].events))
              /\ CutflowCount(merged, d, "selected_events") =
                    SumChunks(MergedOf(d), LAMBDA i : Len(SelectedOf(chunks[i])))
              /\ CutflowCount(merged, d, "selected_events") <= CutflowCount(merged, d, "all_events")
        /\ \A i \in 1..Len(chunks) : chunk_state[i] # "todo" =>
              /\ DOMAIN outputs[i]["cutflow"].d = { chunks[i].dataset }
              /\ CutflowCount(outputs[i], chunks[i].dataset, "number_of_chunks") = 1
              /\ CutflowCount(outputs[i], chunks[i].dataset, "all_events") = Len(chunks[i].events)
              /\ CutflowCount(outputs[i], chunks[i].dataset, "selected_events")
                    = Len(SelectedOf(chunks[i]))

\* two chunks of one dataset merged, with selected and rejected events
C8_Witness ==
    /\ script = "vplusjetPDFsyst" /\ pc = "plot"
    /\ \E d \in Datasets :
          /\ CutflowCount(merged, d, "number_of_chunks") = 2
          /\ CutflowCount(merged, d, "selected_events") >= 1
          /\ CutflowCount(merged, d, "selected_events") < CutflowCount(merged, d, "all_events")

\* C9: at the end of every call of process the flattened dilepton pt and
\* mass arrays have one value per selected event, as many as the weight
\* array; every selected event has jets at index 0 and 1; the call did not
\* raise.
C9_ValuesAndWeightsAligned ==
    script = "vplusjetPDFsyst" =>
        /\ last_call.n_vpt = last_call.n_selected
        /\ last_call.n_vmass = last_call.n_selected
        /\ last_call.n_weight = last_call.n_selected
        /\ last_call.jets_01
        /\ ~last_call.raised
        /\ pc # "raised"

\* the call on the chunk with two selected events and one with two good pairs
C9_Witness ==
    /\ script = "vplusjetPDFsyst"
    /\ last_call.n_selected = 2 /\ last_call.n_vpt = 2 /\ last_call.n_weight = 2
    /\ \E i \in 1..Len(chunks) :
          /\ chunk_state[i] = "processed"
          /\ \E k \in 1..Len(chunks[i].events) : Len(good_dimuons(chunks[i].events[k])) = 2

\* C10: analyze never raises: the run of lhePlot is never ended by an
\* exception of the loop body (a four-vector sum read while it is None).
C10_AnalyzeNeverRaises == ~(script = "lhePlot" /\ pc = "raised")

====
